---------------------------- MODULE Spec2Model ----------------------------
(***************************************************************************)
(* A model of the Mandelbrot explorer: the escape-time engine of           *)
(* mandelbrot.py (ColorMap, MandelBase) and the view of mandelgui.py       *)
(* (MCoordConverter, MScene, MView).  The program is Python 2 / PySide:    *)
(* N/2 on ints is floor division, handlers run to completion one at a      *)
(* time on the GUI thread, and an exception raised in a handler aborts      *)
(* that handler only.                                                       *)
(*                                                                          *)
(* Numbers.  A Python float is modelled as a fixed-point number with Q      *)
(* units per 1.0; sums and products by integers are exact, a quotient or a  *)
(* product of two fixed-point numbers is rounded to the nearest unit (the   *)
(* finite precision of a double, at a coarser grain).  A complex number is  *)
(* a pair <<re, im>> of such numbers.  A QPoint is a pair <<x, y>> of       *)
(* integers.                                                                *)
(***************************************************************************)
EXTENDS Integers, Sequences, FiniteSets, TLC

(***************************************************************************)
(* Bounds of the model.                                                     *)
(***************************************************************************)
FracBits == 0          \* fixed-point precision: Q = 2^FracBits units per 1.0
MaxPix == 1            \* mouse positions are the points of 0..MaxPix squared
MaxDepth == 2          \* depth settings offered by the panel: 1..MaxDepth
MaxNoPixels == 2       \* image-size settings offered by the panel: 1..MaxNoPixels
MaxHist == 2           \* zoom-in is not explored beyond this history length
MaxCoord == 2          \* viewports explored lie in [-MaxCoord, MaxCoord]^2
MaxEngineDepth == 12   \* the engine functions run alone are explored up to this depth
MaxGrid == 3           \* sample points of the engine: multiples of 1/Q up to this
MaxDrag == 3           \* drags explored on their own: between points of 0..MaxDrag squared

Q == 2 ^ FracBits

Abs(a) == IF a < 0 THEN -a ELSE a

\* a / b for b > 0, rounded to the nearest unit
FDiv(a, b) == (2 * a + b) \div (2 * b)

\* product of two fixed-point numbers
FMul(a, b) == FDiv(a * b, Q)

Pixels == 0 .. MaxPix
Points == Pixels \X Pixels

(***************************************************************************)
(* mandelbrot.py, ColorMap                                                  *)
(***************************************************************************)

\* floor(10^6 * sin((i/float(n))*0.5*pi)) as the C library computes it
SinTable ==
  << <<0>>,
     <<0, 707106>>,
     <<0, 499999, 866025>>,
     <<0, 382683, 707106, 923879>>,
     <<0, 309016, 587785, 809016, 951056>>,
     <<0, 258819, 499999, 707106, 866025, 965925>>,
     <<0, 222520, 433883, 623489, 781831, 900968, 974927>> >>

\* floor(10^6 * cos((i/float(n))*0.5*pi)) as the C library computes it
CosTable ==
  << <<1000000>>,
     <<1000000, 707106>>,
     <<1000000, 866025, 500000>>,
     <<1000000, 923879, 707106, 382683>>,
     <<1000000, 951056, 809016, 587785, 309016>>,
     <<1000000, 965925, 866025, 707106, 500000, 258819>>,
     <<1000000, 974927, 900968, 781831, 623489, 433883, 222520>> >>

\* int(intensity*sin(alpha)) with alpha = (i/float(n))*0.5*pi
IntSin(intensity, i, n) == (intensity * SinTable[n][i + 1]) \div 1000000

\* int(intensity*cos(alpha)) with alpha = (i/float(n))*0.5*pi
IntCos(intensity, i, n) == (intensity * CosTable[n][i + 1]) \div 1000000

\* colours are <<red, green, blue>>
Black == <<0, 0, 0>>

\* the first loop: interpolate between blue and green
TopColors(tRange, intensity) ==
  [k \in 1 .. tRange |->
     <<0, IntSin(intensity, k - 1, tRange), IntCos(intensity, k - 1, tRange)>>]

\* the second loop: interpolate between green and red
BottomColors(bRange, intensity) ==
  [k \in 1 .. bRange |->
     <<IntSin(intensity, k - 1, bRange), IntCos(intensity, k - 1, bRange), 0>>]

\* int(darkness*v) with darkness = d + ((1.-d)/fRange)*i and d = 0.05
Darken(v, i, fRange) == ((5 * fRange + 95 * i) * v) \div (100 * fRange)

\* the third loop: the first fRange entries fade to a darker shade
Fade(map, fRange) ==
  [k \in 1 .. Len(map) |->
     IF k <= fRange
       THEN <<0, Darken(map[k][2], k - 1, fRange), Darken(map[k][3], k - 1, fRange)>>
       ELSE map[k]]

\* mutant: the first entry is made black instead of the last
SetFirst(map) == [map EXCEPT ![1] = Black]

\* self.colorMap[-1] = (0,0,0); on an empty list Python raises IndexError
SetLast(map) == [map EXCEPT ![Len(map)] = Black]

\* ColorMap.generate(N, intensity): the ColorMap object it leaves behind
ColorMapGenerate(N, intensity) ==
  LET tRange == N \div 2
      bRange == N - tRange
      fRange == tRange \div 3
  IN  [N |-> N,
       colorMap |->
         SetLast(Fade(TopColors(tRange, intensity) \o BottomColors(bRange, intensity),
                      fRange))]

\* ColorMap.getColor(n): the colour, or the out-of-range exit
OutOfRange == <<"exit", 2>>
PyIndex(list, n) == IF n < 0 THEN list[Len(list) + n + 1] ELSE list[n + 1]
getColor(cm, n) == IF n < cm.N THEN PyIndex(cm.colorMap, n) ELSE OutOfRange

(***************************************************************************)
(* mandelbrot.py, MandelBase                                                *)
(***************************************************************************)

\* mutant: the loop goes on while abs(z) <= 2.
AbsLessEq2(z) == z[1] * z[1] + z[2] * z[2] <= 4 * Q * Q

\* abs(z) < 2. for a complex z
AbsLess2(z) == z[1] * z[1] + z[2] * z[2] < 4 * Q * Q

\* z*z + c for complex z and c
SquarePlus(z, c) ==
  <<FMul(z[1], z[1]) - FMul(z[2], z[2]) + c[1],
    FMul(z[1], z[2]) + FMul(z[2], z[1]) + c[2]>>

\* one pass of the while loop of mandelbrotIterations on the locals z and n
IterBody(loc) == [loc EXCEPT !.n = loc.n + 1, !.z = SquarePlus(loc.z, loc.c)]

\* mutant: the loop runs once more, up to n = N + 1
IterGuardOneMore(loc) == AbsLess2(loc.z) /\ loc.n <= loc.N

\* the guard of that loop
IterGuard(loc) == AbsLess2(loc.z) /\ loc.n < loc.N

\* the while loop of mandelbrotIterations run to its end
RECURSIVE IterLoop(_)
IterLoop(loc) == IF IterGuard(loc) THEN IterLoop(IterBody(loc)) ELSE loc.n

\* the locals of mandelbrotIterations(c, N) when it enters its loop
IterEnter(c, N) == [z |-> <<0, 0>>, n |-> 0, c |-> c, N |-> N]

\* MandelBase.mandelbrotIterations(c, N)
mandelbrotIterations(c, N) == IterLoop(IterEnter(c, N))

\* a PlotRange object
PlotRange(corner, zSize) == [corner |-> corner, zSize |-> zSize]

\* cDelta = plotRange.zSize/float(noPixels)
CDelta(plotRange, noPixels) == FDiv(plotRange.zSize, noPixels)

\* mutant: the pixel's corner is sampled instead of its centre
PixelCorner(plotRange, noPixels, i, j) ==
  LET cDelta == FDiv(plotRange.zSize, noPixels)
  IN  <<plotRange.corner[1] + i * cDelta, plotRange.corner[2] - j * cDelta>>

\* the complex number getPixelMap stores at pixelMap[i][j]
PixelPoint(plotRange, noPixels, i, j) ==
  LET cDelta == CDelta(plotRange, noPixels)
  IN  <<plotRange.corner[1] + FDiv(cDelta, 2) + i * cDelta,
        plotRange.corner[2] - FDiv(cDelta, 2) - j * cDelta>>

\* MandelBase.getPixelMap(noPixels, plotRange)
getPixelMap(noPixels, plotRange) ==
  [i \in 0 .. noPixels - 1 |->
     [j \in 0 .. noPixels - 1 |-> PixelPoint(plotRange, noPixels, i, j)]]

\* the locals fillImage holds when it enters its loops: the positions i, j,
\* itrNo, the pixel map, the setPixel calls made and the signals emitted
FillEnter(plotRange, noPixels, iterN, colorMap) ==
  [i |-> 0, j |-> 0, itrNo |-> 1,
   noPixels |-> noPixels, iterN |-> iterN, colorMap |-> colorMap,
   complexList |-> getPixelMap(noPixels, plotRange),
   setPixel |-> <<>>,
   maxSignal |-> <<noPixels * noPixels>>,
   itrSignal |-> <<>>,
   exit |-> FALSE]

\* the loops of fillImage have a pixel left to visit
FillGuard(loc) == loc.i < loc.noPixels /\ ~loc.exit

\* mutant: itrNo is not increased after the last pixel of a column, and the
\* test before setPixel is dropped
FillBodyRepeats(loc) ==
  LET c == loc.complexList[loc.i][loc.j]
      color == getColor(loc.colorMap, mandelbrotIterations(c, loc.iterN) - 1)
      last == loc.j + 1 = loc.noPixels
  IN  [loc EXCEPT !.setPixel = Append(@, <<loc.i, loc.j, color>>),
                  !.itrSignal = Append(@, loc.itrNo),
                  !.itrNo = IF last THEN @ ELSE @ + 1,
                  !.i = IF last THEN @ + 1 ELSE @,
                  !.j = IF last THEN 0 ELSE @ + 1]

\* the body of the inner loop of fillImage at (i, j), then the step to the
\* next (i, j) of the two nested range() loops
FillBody(loc) ==
  LET c == loc.complexList[loc.i][loc.j]
      mIter == mandelbrotIterations(c, loc.iterN)
      color == getColor(loc.colorMap, mIter - 1)
      last == loc.j + 1 = loc.noPixels
  IN  IF color = OutOfRange
        THEN [loc EXCEPT !.exit = TRUE]
        ELSE [loc EXCEPT
                !.setPixel = IF loc.i > loc.noPixels \/ loc.j > loc.noPixels
                               THEN @
                               ELSE Append(@, <<loc.i, loc.j, color>>),
                !.itrSignal = Append(@, loc.itrNo),
                !.itrNo = @ + 1,
                !.i = IF last THEN @ + 1 ELSE @,
                !.j = IF last THEN 0 ELSE @ + 1]

\* the loops of fillImage run to their end
RECURSIVE FillRun(_)
FillRun(loc) == IF FillGuard(loc) THEN FillRun(FillBody(loc)) ELSE loc

\* the QImage after the setPixel calls: pixel (i, j) holds the colour of the
\* last call for it; a pixel never set holds whatever the allocation held
Unset == <<"unset">>
ImageOf(noPixels, calls) ==
  [i \in 0 .. noPixels - 1 |->
     [j \in 0 .. noPixels - 1 |->
        LET ks == {k \in 1 .. Len(calls) : calls[k][1] = i /\ calls[k][2] = j}
        IN  IF ks = {} THEN Unset
            ELSE calls[CHOOSE k \in ks : \A m \in ks : m <= k][3]]]

\* MandelBase.fillImage(plotRange, noPixels, iterN, colorMap), run to its end:
\* the image returned and the signals emitted on the way
fillImage(plotRange, noPixels, iterN, colorMap) ==
  LET end == FillRun(FillEnter(plotRange, noPixels, iterN, colorMap))
  IN  [image |-> ImageOf(noPixels, end.setPixel),
       maxSignal |-> end.maxSignal,
       itrSignal |-> end.itrSignal,
       exit |-> end.exit]

(***************************************************************************)
(* mandelgui.py                                                             *)
(*                                                                          *)
(* The program starts with depth 200 and a 500 x 500 image; the model       *)
(* starts with the largest depth and image size of its bounds instead.      *)
(* MCoordConverter.precision and the converter's own screen position only   *)
(* format the status-bar text and are left out.  The view is explored with  *)
(* the intensity left at its initial value; the engine functions are run    *)
(* on their own over every intensity the panel accepts.                     *)
(***************************************************************************)
InitIntensity == 200
MaxIntensity == 255
InitDepth == MaxDepth
InitNoPixels == MaxNoPixels
InitCorner == <<-2 * Q, 2 * Q>>
InitWidth == 4 * Q

Depths == 1 .. MaxDepth
Intensities == {InitIntensity}
Resolutions == 1 .. MaxNoPixels
Buttons == {"Left", "Right"}

VARIABLES
  upperLeftCorner,   \* MCoordConverter.upperLeftCorner (class attribute)
  scaleFactor,       \* MCoordConverter.scaleFactor (class attribute)
  colorMap,          \* MScene.colorMap
  scene,             \* the pixmap of the scene and the arguments it was made from
  emitted,           \* the signals the sender emitted during the last fillImage
  mousePress,        \* MView.mousePress
  origin,            \* MView.origin
  rubberBand,        \* geometry and visibility of MView.rubberBand
  depth,             \* MView.depth
  intensity,         \* MView.intensity
  noPixels,          \* MView.noPixels
  history,           \* MView.history
  held,              \* the user holds the left mouse button down
  lastOp,            \* what the mouse-button handler that ran last did
  trip,              \* progress of a zoom-in / zoom-out / zoom-out sequence from the root
  frame              \* the engine function run on its own, with its locals

guiVars == <<upperLeftCorner, scaleFactor, colorMap, scene, emitted, mousePress,
             origin, rubberBand, depth, intensity, noPixels, history, held,
             lastOp, trip>>

vars == <<guiVars, frame>>

\* QRect(topLeft, bottomRight) and QRect(topLeft, QSize()); Qt stores the two
\* corners, and width() is x2 - x1 + 1.  A null QSize is (-1, -1).
QRect(p1, p2) == [x1 |-> p1[1], y1 |-> p1[2], x2 |-> p2[1], y2 |-> p2[2]]
QRectOfSize(p, w, h) == QRect(p, <<p[1] + w - 1, p[2] + h - 1>>)
RectWidth(r) == r.x2 - r.x1 + 1
RectHeight(r) == r.y2 - r.y1 + 1

\* QRect.normalized(): the corners are swapped where the extent is negative
Normalized(r) ==
  [x1 |-> IF r.x2 < r.x1 - 1 THEN r.x2 ELSE r.x1,
   x2 |-> IF r.x2 < r.x1 - 1 THEN r.x1 ELSE r.x2,
   y1 |-> IF r.y2 < r.y1 - 1 THEN r.y2 ELSE r.y1,
   y2 |-> IF r.y2 < r.y1 - 1 THEN r.y1 ELSE r.y2]

\* QWidget.setGeometry(r): the widget is moved to r's top left corner and
\* takes r's size, which a widget bounds below by its minimum size (0, 0)
Max0(a) == IF a < 0 THEN 0 ELSE a
SetGeometry(band, r) ==
  [band EXCEPT !.x = r.x1, !.y = r.y1,
               !.w = Max0(RectWidth(r)), !.h = Max0(RectHeight(r))]

\* MCoordConverter.setPixelCoord(pos) followed by getComplex()
PixelToComplex(pos) ==
  <<upperLeftCorner[1] + scaleFactor * pos[1],
    upperLeftCorner[2] - scaleFactor * pos[2]>>

\* one entry of the history list
Entry(corner, width, d, in, n) ==
  [corner |-> corner, width |-> width, depth |-> d, intensity |-> in, noPixels |-> n]

\* the record of a handler that ran
Op(name, button, rendered, warned, raised) ==
  [handler |-> name, button |-> button, rendered |-> rendered,
   warned |-> warned, raised |-> raised]

\* mutant: the corner is set and the scale factor left as it was
setPlotAreaStaleScale(corner, complexWidth, pixelwidth) ==
  /\ upperLeftCorner' = corner
  /\ UNCHANGED scaleFactor

\* MCoordConverter.setPlotArea(corner, complexWidth, pixelwidth) on the class
\* attributes
setPlotArea(corner, complexWidth, pixelwidth) ==
  /\ upperLeftCorner' = corner
  /\ scaleFactor' = FDiv(complexWidth, pixelwidth)

\* MScene.generateImage(upperLeft, width, depth, intensity, noPixels)
generateImage(upperLeft, width, d, in, n) ==
  LET cm == ColorMapGenerate(d, in)
      out == fillImage(PlotRange(upperLeft, width), n, d, cm)
  IN  /\ setPlotArea(upperLeft, width, n)
      /\ colorMap' = cm
      /\ scene' = [corner |-> upperLeft, width |-> width, depth |-> d,
                   intensity |-> in, noPixels |-> n, image |-> out.image]
      /\ emitted' = [maxSignal |-> out.maxSignal, itrSignal |-> out.itrSignal]
      /\ UNCHANGED frame

noImage == UNCHANGED <<upperLeftCorner, scaleFactor, colorMap, scene, emitted, frame>>

\* the renders the model explores: of viewports inside the square of
\* MaxCoord whose pixel centres are fixed-point numbers
Explored(corner, width, n) ==
  /\ width % (2 * n) = 0
  /\ corner[1] >= -MaxCoord * Q /\ corner[1] + width <= MaxCoord * Q
  /\ corner[2] <= MaxCoord * Q /\ corner[2] - width >= -MaxCoord * Q

\* MScene.__init__ and MView.__init__
InitGui ==
  LET cm == ColorMapGenerate(InitDepth, InitIntensity)
      out == fillImage(PlotRange(InitCorner, InitWidth), InitNoPixels, InitDepth, cm)
  IN  /\ upperLeftCorner = InitCorner
      /\ scaleFactor = FDiv(InitWidth, InitNoPixels)
      /\ colorMap = cm
      /\ scene = [corner |-> InitCorner, width |-> InitWidth, depth |-> InitDepth,
                  intensity |-> InitIntensity, noPixels |-> InitNoPixels,
                  image |-> out.image]
      /\ emitted = [maxSignal |-> out.maxSignal, itrSignal |-> out.itrSignal]
      /\ mousePress = FALSE
      /\ origin = <<0, 0>>
      /\ rubberBand = [x |-> 0, y |-> 0, w |-> 100, h |-> 30, visible |-> FALSE]
      /\ depth = InitDepth
      /\ intensity = InitIntensity
      /\ noPixels = InitNoPixels
      /\ history = <<Entry(InitCorner, InitWidth, InitDepth, InitIntensity, InitNoPixels)>>
      /\ held = FALSE
      /\ lastOp = Op("__init__", "None", TRUE, FALSE, FALSE)
      /\ trip = "none"

\* the viewport of a history entry or of the scene
Viewport(e) == PlotRange(e.corner, e.width)

\* the history holds the initial viewport and nothing else
AtRoot == Len(history) = 1 /\ Viewport(history[1]) = PlotRange(InitCorner, InitWidth)

\* MView.setDepth, connected to the depth field of the panel
setDepth(d) ==
  /\ depth' = d
  /\ noImage
  /\ UNCHANGED <<mousePress, origin, rubberBand, intensity, noPixels, history,
                 held, lastOp, trip>>

\* MView.setIntensity, connected to the intensity field of the panel
setIntensity(in) ==
  /\ intensity' = in
  /\ noImage
  /\ UNCHANGED <<mousePress, origin, rubberBand, depth, noPixels, history,
                 held, lastOp, trip>>

\* MView.setNoPixels, connected to the image-size field of the panel
setNoPixels(n) ==
  /\ noPixels' = n
  /\ noImage
  /\ UNCHANGED <<mousePress, origin, rubberBand, depth, intensity, history,
                 held, lastOp, trip>>

\* mutant: the entry is read without being removed from the list
PoppedKeeps(h) == h

\* list.pop(): the list that is left
Popped(h) == SubSeq(h, 1, Len(h) - 1)

\* mutant: the test lets a history of one entry through
CanZoomOutAtRoot(h) == Len(h) > 0

\* the test that lets a right click go back in the history
CanZoomOut(h) == Len(h) > 1

\* prev = self.history.pop(), the second pop of a right click, on the list h
\* the first pop left
PrevEntry(h) == h[Len(h)]

\* mutant: the width of the selection is not tested
NonDegenerateAlways(width) == TRUE

\* the test that lets a left release zoom in
NonDegenerate(width) == width # 0

\* MView.mousePressEvent(event) with event.button() = button, event.pos() = pos
mousePressEvent(button, pos) ==
  /\ button = "Left" => ~held
  /\ held' = (held \/ button = "Left")
  /\ UNCHANGED <<depth, intensity, noPixels>>
  /\ IF button = "Left"
       THEN /\ mousePress' = TRUE
            /\ origin' = pos
            /\ rubberBand' = [SetGeometry(rubberBand, QRectOfSize(pos, -1, -1))
                                EXCEPT !.visible = TRUE]
            /\ lastOp' = Op("mousePressEvent", button, FALSE, FALSE, FALSE)
            /\ noImage
            /\ UNCHANGED <<history, trip>>
       ELSE IF CanZoomOut(history)
         THEN LET h1 == Popped(history)
              IN  IF h1 = <<>>
                    THEN \* the second pop raises IndexError
                         /\ history' = h1
                         /\ lastOp' = Op("mousePressEvent", button, FALSE, FALSE, TRUE)
                         /\ trip' = "none"
                         /\ noImage
                         /\ UNCHANGED <<mousePress, origin, rubberBand>>
                    ELSE LET prev == PrevEntry(h1)
                         IN  /\ history' = Popped(h1)
                             /\ generateImage(prev.corner, prev.width, prev.depth,
                                              prev.intensity, prev.noPixels)
                             /\ lastOp' = Op("mousePressEvent", button, TRUE, FALSE, FALSE)
                             /\ trip' = IF trip = "in" THEN "out"
                                        ELSE IF trip = "out" THEN "rendered" ELSE "none"
                             /\ UNCHANGED <<mousePress, origin, rubberBand>>
         ELSE /\ lastOp' = Op("mousePressEvent", button, FALSE, TRUE, FALSE)
              /\ trip' = IF trip = "out" THEN "refused" ELSE "none"
              /\ noImage
              /\ UNCHANGED <<mousePress, origin, rubberBand, history>>

\* mutant: a delta of zero counts as a positive direction
SquareCornerZeroPositive(org, pos) ==
  LET dx == pos[1] - org[1]
      dy == pos[2] - org[2]
      dmax == IF Abs(dx) > Abs(dy) THEN Abs(dx) ELSE Abs(dy)
  IN  IF dx >= 0
        THEN IF dy >= 0 THEN <<org[1] + dmax, org[2] + dmax>>
                        ELSE <<org[1] + dmax, org[2] - dmax>>
        ELSE IF dy >= 0 THEN <<org[1] - dmax, org[2] + dmax>>
                        ELSE <<org[1] - dmax, org[2] - dmax>>

\* the second corner mouseMoveEvent gives the rubber band
SquareCorner(org, pos) ==
  LET dx == pos[1] - org[1]
      dy == pos[2] - org[2]
      dmax == IF Abs(dx) > Abs(dy) THEN Abs(dx) ELSE Abs(dy)
  IN  IF dx > 0
        THEN IF dy > 0 THEN <<org[1] + dmax, org[2] + dmax>>
                       ELSE <<org[1] + dmax, org[2] - dmax>>
        ELSE IF dy > 0 THEN <<org[1] - dmax, org[2] + dmax>>
                       ELSE <<org[1] - dmax, org[2] - dmax>>

\* MView.mouseMoveEvent(event) with event.pos() = pos
mouseMoveEvent(pos) ==
  /\ rubberBand' = IF mousePress
                     THEN SetGeometry(rubberBand,
                                      Normalized(QRect(origin, SquareCorner(origin, pos))))
                     ELSE rubberBand
  /\ noImage
  /\ UNCHANGED <<mousePress, origin, depth, intensity, noPixels, history, held,
                 lastOp, trip>>

\* MView.mouseReleaseEvent(event) with event.button() = button
mouseReleaseEvent(button) ==
  /\ button = "Left" => held
  /\ held' = (held /\ button # "Left")
  /\ UNCHANGED <<origin, depth, intensity, noPixels>>
  /\ IF button = "Left"
       THEN LET corner == PixelToComplex(<<rubberBand.x, rubberBand.y>>)
                width == rubberBand.w * scaleFactor
            IN  /\ mousePress' = FALSE
                /\ rubberBand' = [rubberBand EXCEPT !.visible = FALSE]
                /\ IF NonDegenerate(width)
                     THEN /\ Len(history) < MaxHist
                          /\ Explored(corner, width, noPixels)
                          /\ generateImage(corner, width, depth, intensity, noPixels)
                          /\ history' = Append(history,
                                               Entry(corner, width, depth, intensity, noPixels))
                          /\ lastOp' = Op("mouseReleaseEvent", button, TRUE, FALSE, FALSE)
                          /\ trip' = IF AtRoot THEN "in" ELSE "none"
                     ELSE /\ lastOp' = Op("mouseReleaseEvent", button, FALSE, FALSE, FALSE)
                          /\ noImage
                          /\ UNCHANGED <<history, trip>>
       ELSE /\ lastOp' = Op("mouseReleaseEvent", button, FALSE, FALSE, FALSE)
            /\ noImage
            /\ UNCHANGED <<mousePress, rubberBand, history, trip>>

\* MView.mouseDoubleClickEvent(event); Qt sends it in place of the press that
\* follows a click of the same button
mouseDoubleClickEvent(button) ==
  /\ button = "Left" => ~held
  /\ lastOp.handler = "mouseReleaseEvent" /\ lastOp.button = button
  /\ held' = (held \/ button = "Left")
  /\ trip' = "none"
  /\ UNCHANGED <<mousePress, origin, rubberBand, depth, intensity, noPixels, history>>
  /\ IF history = <<>>
       THEN \* self.history[-1] raises IndexError
            /\ lastOp' = Op("mouseDoubleClickEvent", button, FALSE, FALSE, TRUE)
            /\ noImage
       ELSE LET curr == history[Len(history)]
            IN  /\ Explored(curr.corner, curr.width, noPixels)
                /\ generateImage(curr.corner, curr.width, depth, intensity, noPixels)
                /\ lastOp' = Op("mouseDoubleClickEvent", button, TRUE, FALSE, FALSE)

NoFrame == [fn |-> "none"]

Init == InitGui /\ frame = NoFrame

Next ==
  \/ \E d \in Depths : setDepth(d)
  \/ \E in \in Intensities : setIntensity(in)
  \/ \E n \in Resolutions : setNoPixels(n)
  \/ \E b \in Buttons, pos \in Points : mousePressEvent(b, pos)
  \/ \E pos \in Points : mouseMoveEvent(pos)
  \/ \E b \in Buttons : mouseReleaseEvent(b)
  \/ \E b \in Buttons : mouseDoubleClickEvent(b)

Spec == Init /\ [][Next]_vars

(***************************************************************************)
(* The engine functions run on their own, one step of their loops at a      *)
(* time, on inputs drawn from the bounds.                                   *)
(***************************************************************************)
Grid == (-MaxGrid * Q) .. (MaxGrid * Q)

\* mandelbrotIterations(c, N) is called
InitIter ==
  /\ InitGui
  /\ \E c \in Grid \X Grid, N \in 1 .. MaxEngineDepth :
       frame = [fn |-> "mandelbrotIterations", pc |-> "loop", loc |-> IterEnter(c, N)]

\* the loop of mandelbrotIterations is entered once more
IterStep ==
  /\ frame.fn = "mandelbrotIterations" /\ frame.pc = "loop"
  /\ IterGuard(frame.loc)
  /\ frame' = [frame EXCEPT !.loc = IterBody(@)]
  /\ UNCHANGED guiVars

\* the loop of mandelbrotIterations is left and n returned
IterReturn ==
  /\ frame.fn = "mandelbrotIterations" /\ frame.pc = "loop"
  /\ ~IterGuard(frame.loc)
  /\ frame' = [frame EXCEPT !.pc = "done"]
  /\ UNCHANGED guiVars

NextIter == IterStep \/ IterReturn

SpecIter == InitIter /\ [][NextIter]_vars

\* the plot ranges fillImage is run on: the initial one and its quarters
FillRanges ==
  {PlotRange(InitCorner, InitWidth)} \cup
  {PlotRange(<<InitCorner[1] + 2 * Q * a, InitCorner[2] - 2 * Q * b>>, 2 * Q) :
     a \in 0 .. 1, b \in 0 .. 1}

\* fillImage(plotRange, noPixels, iterN, colorMap) is called, with the colour
\* map generateImage makes for iterN
InitFill ==
  /\ InitGui
  /\ \E pr \in FillRanges, n \in 1 .. MaxNoPixels + 1, d \in 1 .. MaxEngineDepth,
        in \in {1, InitIntensity, MaxIntensity} :
       frame = [fn |-> "fillImage", pc |-> "loop",
                plotRange |-> pr,
                loc |-> FillEnter(pr, n, d, ColorMapGenerate(d, in))]

\* the loops of fillImage visit one more pixel
FillStep ==
  /\ frame.fn = "fillImage" /\ frame.pc = "loop"
  /\ FillGuard(frame.loc)
  /\ frame' = [frame EXCEPT !.loc = FillBody(@)]
  /\ UNCHANGED guiVars

\* the loops of fillImage are left and the image returned
FillReturn ==
  /\ frame.fn = "fillImage" /\ frame.pc = "loop"
  /\ ~FillGuard(frame.loc)
  /\ frame' = [frame EXCEPT !.pc = "done"]
  /\ UNCHANGED guiVars

NextFill == FillStep \/ FillReturn

SpecFill == InitFill /\ [][NextFill]_vars

\* ColorMap.generate(N, intensity) is called
InitColor ==
  /\ InitGui
  /\ \E N \in 1 .. MaxEngineDepth, in \in 1 .. MaxIntensity :
       frame = [fn |-> "generate", pc |-> "top", N |-> N, intensity |-> in,
                colorMap |-> <<>>]

\* the first loop of generate
GenTop ==
  /\ frame.fn = "generate" /\ frame.pc = "top"
  /\ frame' = [frame EXCEPT !.pc = "bottom",
                 !.colorMap = @ \o TopColors(frame.N \div 2, frame.intensity)]
  /\ UNCHANGED guiVars

\* the second loop of generate
GenBottom ==
  /\ frame.fn = "generate" /\ frame.pc = "bottom"
  /\ frame' = [frame EXCEPT !.pc = "fade",
                 !.colorMap = @ \o BottomColors(frame.N - frame.N \div 2, frame.intensity)]
  /\ UNCHANGED guiVars

\* the third loop of generate
GenFade ==
  /\ frame.fn = "generate" /\ frame.pc = "fade"
  /\ frame' = [frame EXCEPT !.pc = "black",
                 !.colorMap = Fade(@, (frame.N \div 2) \div 3)]
  /\ UNCHANGED guiVars

\* the last statement of generate
GenBlack ==
  /\ frame.fn = "generate" /\ frame.pc = "black"
  /\ frame' = [frame EXCEPT !.pc = "done", !.colorMap = SetLast(@)]
  /\ UNCHANGED guiVars

NextColor == GenTop \/ GenBottom \/ GenFade \/ GenBlack

SpecColor == InitColor /\ [][NextColor]_vars

(***************************************************************************)
(* The dragging branch of mouseMoveEvent run on its own, one statement      *)
(* group at a time, for a left press at any point of 0..MaxDrag squared     *)
(* followed by a move to any other such point.                              *)
(***************************************************************************)
DragPoints == (0 .. MaxDrag) \X (0 .. MaxDrag)

\* the branch mouseMoveEvent(event) takes when mousePress is set; the frame
\* holds what the branch reads and writes, the origin and the rubber band as
\* a left press at org left them, and the event's position
InitDrag ==
  /\ InitGui
  /\ \E org \in DragPoints, pos \in DragPoints :
       frame = [fn |-> "mouseMoveEvent", pc |-> "corner",
                origin |-> org, event |-> pos, pos |-> pos,
                band |-> [SetGeometry(rubberBand, QRectOfSize(org, -1, -1))
                            EXCEPT !.visible = TRUE]]

\* dx, dy and dmax are computed and pos becomes the second corner
DragCorner ==
  /\ frame.fn = "mouseMoveEvent" /\ frame.pc = "corner"
  /\ frame' = [frame EXCEPT !.pc = "geometry",
                 !.pos = SquareCorner(frame.origin, frame.event)]
  /\ UNCHANGED guiVars

\* the rubber band takes the geometry of the normalized rectangle
DragGeometry ==
  /\ frame.fn = "mouseMoveEvent" /\ frame.pc = "geometry"
  /\ frame' = [frame EXCEPT !.pc = "done",
                 !.band = SetGeometry(@, Normalized(QRect(frame.origin, frame.pos)))]
  /\ UNCHANGED guiVars

NextDrag == DragCorner \/ DragGeometry

SpecDrag == InitDrag /\ [][NextDrag]_vars

(***************************************************************************)
(* The claims                                                               *)
(***************************************************************************)
RootRange == PlotRange(InitCorner, InitWidth)

\* C1: after any sequence of GUI events the history list holds at least one
\* entry; a right-click zoom-out never leaves it empty.
C1_HistoryNeverEmpty == Len(history) >= 1

\* a step in which a right click went back in the history
ZoomOutStep == Len(history) > 1 /\ Len(history') < Len(history)

\* C2: a successful zoom-out removes exactly one entry, the current one, from
\* the history, and the viewport it renders is the entry on top of the
\* history afterwards.
C2_ZoomOutPopsCurrent ==
  [][ZoomOutStep =>
       /\ history' = Popped(history)
       /\ Viewport(scene') = Viewport(history'[Len(history')])]_vars

\* C3: from a history that holds only the initial viewport, a zoom-in and then
\* a right click render the viewport that was on top of the history before
\* the zoom-in, and one more right click is refused and renders nothing.
C3_ZoomInOutFromRoot ==
  /\ trip = "in" => (Len(history) = 2 /\ Viewport(history[1]) = RootRange)
  /\ trip = "out" => Viewport(scene) = RootRange
  /\ trip # "rendered"

C3_Witness ==
  trip = "refused" /\ Viewport(scene) = RootRange /\ lastOp.warned /\ ~lastOp.rendered

\* C4: a right click while the history holds one entry changes neither the
\* history nor the image nor the converter's corner and scale factor, and
\* starts no render.
C4_AtRootChangesNothing ==
  [][(Len(history) = 1 /\ lastOp'.handler = "mousePressEvent"
        /\ lastOp'.button = "Right") =>
       /\ UNCHANGED <<history, scene, colorMap, emitted, upperLeftCorner, scaleFactor>>
       /\ (lastOp' # lastOp => lastOp'.warned /\ ~lastOp'.rendered /\ ~lastOp'.raised)]_vars

C4_Witness ==
  /\ Len(history) = 1
  /\ lastOp = Op("mousePressEvent", "Right", FALSE, TRUE, FALSE)
  /\ Viewport(scene) # RootRange

\* a step in which the left button is released
LeftReleaseStep == held /\ ~held'

\* C5: a left release whose selection has zero width starts no render, adds
\* nothing to the history, leaves the converter's corner and scale factor
\* alone and ends the gesture (mousePress false).
C5_DegenerateDiscarded ==
  [][(LeftReleaseStep /\ rubberBand.w * scaleFactor = 0) =>
       /\ UNCHANGED <<history, scene, colorMap, emitted, upperLeftCorner, scaleFactor>>
       /\ ~lastOp'.rendered
       /\ ~mousePress']_vars

C5_Witness ==
  /\ lastOp = Op("mouseReleaseEvent", "Left", FALSE, FALSE, FALSE)
  /\ rubberBand.w = 0 /\ rubberBand.h > 0
  /\ ~mousePress /\ ~held

\* the setPixel calls made for pixel (i, j)
CallsFor(calls, i, j) == {k \in 1 .. Len(calls) : calls[k][1] = i /\ calls[k][2] = j}

\* C6: in a render of resolution R every pixel (i, j) with 0 <= i, j < R is
\* written exactly once, the progress signal is emitted R*R times with the
\* counts 1 .. R*R in order, and the last count is the total maxSignal sent.
C6_EveryPixelOnce ==
  frame.fn = "fillImage" =>
    LET loc == frame.loc
        R == loc.noPixels
    IN  /\ loc.maxSignal = <<R * R>>
        /\ \A k \in 1 .. Len(loc.itrSignal) : loc.itrSignal[k] = k
        /\ \A i, j \in 0 .. R - 1 : Cardinality(CallsFor(loc.setPixel, i, j)) <= 1
        /\ frame.pc = "done" =>
             /\ Len(loc.itrSignal) = R * R
             /\ loc.itrSignal[R * R] = loc.maxSignal[1]
             /\ Len(loc.setPixel) = R * R
             /\ \A i, j \in 0 .. R - 1 : Cardinality(CallsFor(loc.setPixel, i, j)) = 1

C6_Witness ==
  /\ frame.fn = "fillImage" /\ frame.pc = "done"
  /\ frame.loc.noPixels = 2
  /\ frame.loc.itrSignal = <<1, 2, 3, 4>>

\* C7: in every render the GUI starts the colour table has as many entries as
\* the render's depth, every iteration count lies in 1 .. depth, and no
\* colour lookup is out of range.
C7_ColorLookupInRange ==
  /\ colorMap.N = scene.depth
  /\ Len(colorMap.colorMap) = scene.depth
  /\ \A i, j \in 0 .. scene.noPixels - 1 :
       LET c == PixelPoint(Viewport(scene), scene.noPixels, i, j)
           n == mandelbrotIterations(c, scene.depth)
       IN  /\ n \in 1 .. scene.depth
           /\ getColor(colorMap, n - 1) # OutOfRange
           /\ scene.image[i][j] = colorMap.colorMap[n]

C7_Witness ==
  /\ lastOp = Op("mousePressEvent", "Right", TRUE, FALSE, FALSE)
  /\ scene.depth # depth
  /\ scene.noPixels # noPixels
  /\ \E i, j \in 0 .. scene.noPixels - 1 :
       mandelbrotIterations(PixelPoint(Viewport(scene), scene.noPixels, i, j),
                            scene.depth) = scene.depth

C9_TableLength ==
  (frame.fn = "generate" /\ frame.N >= 2) =>
    /\ frame.pc = "bottom" => Len(frame.colorMap) = frame.N \div 2
    /\ frame.pc \in {"fade", "black", "done"} => Len(frame.colorMap) = frame.N
    /\ frame.pc = "done" =>
         /\ frame.colorMap[frame.N] = <<0, 0, 0>>
         /\ frame.colorMap = ColorMapGenerate(frame.N, frame.intensity).colorMap

C9_Witness ==
  /\ frame.fn = "generate" /\ frame.pc = "done"
  /\ frame.N = MaxEngineDepth /\ frame.intensity = MaxIntensity
  /\ frame.colorMap[1] # <<0, 0, MaxIntensity>>

\* C10: a render samples pixel centres: cell (i, j) of a viewport with corner
\* (cr, ci), side S and resolution R is evaluated at
\* (cr + 0.5*D + i*D, ci - 0.5*D - j*D) with D = S/R, and the colour written to
\* it is colorTable[iterate(point, maxDepth) - 1]; for corner (-2, 2), side 4
\* and resolution 2 the points are (-1,1), (1,1), (-1,-1), (1,-1).
C10_PixelCentres ==
  frame.fn = "fillImage" =>
    LET loc == frame.loc
        R == loc.noPixels
        S == frame.plotRange.zSize
        corner == frame.plotRange.corner
    IN  /\ S % (2 * R) = 0 =>
             \A i, j \in 0 .. R - 1 :
               /\ 2 * R * (loc.complexList[i][j][1] - corner[1]) = (2 * i + 1) * S
               /\ 2 * R * (corner[2] - loc.complexList[i][j][2]) = (2 * j + 1) * S
        /\ \A k \in 1 .. Len(loc.setPixel) :
             LET i == loc.setPixel[k][1]
                 j == loc.setPixel[k][2]
             IN  loc.setPixel[k][3] =
                   loc.colorMap.colorMap[mandelbrotIterations(loc.complexList[i][j],
                                                              loc.iterN)]
        /\ (frame.plotRange = RootRange /\ R = 2) =>
             /\ loc.complexList[0][0] = <<-Q, Q>>
             /\ loc.complexList[1][0] = <<Q, Q>>
             /\ loc.complexList[0][1] = <<-Q, -Q>>
             /\ loc.complexList[1][1] = <<Q, -Q>>

C10_Witness ==
  /\ frame.fn = "fillImage" /\ frame.pc = "done"
  /\ frame.plotRange = RootRange /\ frame.loc.noPixels = 2
  /\ Len(frame.loc.setPixel) = 4
  /\ \E k \in 1 .. 4 : frame.loc.setPixel[k][3] # Black

\* a drag run on its own: its deltas and the largest of them
DragDx == frame.event[1] - frame.origin[1]
DragDy == frame.event[2] - frame.origin[2]
DragD == IF Abs(DragDx) > Abs(DragDy) THEN Abs(DragDx) ELSE Abs(DragDy)

\* C11: for every drag origin and every mouse position different from it the
\* rectangle mouseMoveEvent gives the rubber band is a square, its width
\* equal to its height.
C11_SelectionSquare ==
  (frame.fn = "mouseMoveEvent" /\ frame.pc = "done" /\ frame.event # frame.origin)
  => frame.band.w = frame.band.h

\* a step that appends a new viewport to the history
ZoomInStep == Len(history') = Len(history) + 1

\* the rubber band has the geometry a move of this drag gave it
BandOfThisDrag ==
  \E pos \in Points :
    LET band == SetGeometry(rubberBand, Normalized(QRect(origin, SquareCorner(origin, pos))))
    IN  rubberBand = band

\* C12: a new viewport is rendered and appended to the history only by a left
\* release handled while dragging (mousePress set by a left press and no
\* release since), from the square of that drag's own origin and last move; a
\* left release handled when not dragging, such as the one that follows a
\* double click, never zooms with a rectangle left over from an earlier drag.
C12_ZoomOnlyWhileDragging ==
  [][ZoomInStep =>
       /\ LeftReleaseStep
       /\ mousePress
       /\ BandOfThisDrag
       /\ lastOp' = Op("mouseReleaseEvent", "Left", TRUE, FALSE, FALSE)]_vars

\* the direction a delta gives the square: zero counts as negative
DirOf(a) == IF a > 0 THEN 1 ELSE -1

\* the direction of a delta when zero counts as positive
DirOfNonNegative(a) == IF a >= 0 THEN 1 ELSE -1

\* the second corner has been computed
CornerComputed == frame.fn = "mouseMoveEvent" /\ frame.pc \in {"geometry", "done"}

\* C13 as amended: the second corner of the selection is
\* origin + (sx*d, sy*d) with d = max(|dx|, |dy|), sx = +1 when dx > 0 and -1
\* when dx <= 0, and sy likewise from dy; a drag with dx == 0 has its second
\* corner on the negative side in x, and likewise for y.
C13_SecondCorner ==
  CornerComputed =>
    frame.pos = <<frame.origin[1] + DirOf(DragDx) * DragD,
                  frame.origin[2] + DirOf(DragDy) * DragD>>

C13_Witness ==
  /\ frame.fn = "mouseMoveEvent" /\ frame.pc = "done"
  /\ frame.origin = <<1, 0>> /\ frame.event = <<1, 2>>
  /\ frame.pos = <<-1, 2>>
  /\ frame.band = [x |-> -1, y |-> 0, w |-> 3, h |-> 3, visible |-> TRUE]

\* C13 as stated: the second corner is origin + (sx*d, sy*d) with sx and sy
\* following the signs of dx and dy, also when dx == 0 or dy == 0: the square
\* never extends toward negative x when dx >= 0, and likewise for y.
C13_NeverNegativeFromZero ==
  CornerComputed =>
    frame.pos = <<frame.origin[1] + DirOfNonNegative(DragDx) * DragD,
                  frame.origin[2] + DirOfNonNegative(DragDy) * DragD>>

\* a step in which mouseDoubleClickEvent ran
DoubleClickStep ==
  lastOp'.handler = "mouseDoubleClickEvent" /\ lastOp.handler # "mouseDoubleClickEvent"

\* C14: a double click renders again the plot region on display (same corner
\* and side length) with the current depth, intensity and image size, and
\* leaves the history as it is, after any zoom-ins and zoom-outs.
C14_DoubleClickRerendersDisplayed ==
  [][DoubleClickStep =>
       /\ lastOp'.rendered /\ ~lastOp'.raised
       /\ Viewport(scene') = Viewport(scene)
       /\ scene'.depth = depth /\ scene'.intensity = intensity
       /\ scene'.noPixels = noPixels
       /\ history' = history]_vars

\* C15: whenever a left release computes a new viewport, the corner and the
\* scale factor it reads from the class attributes of MCoordConverter are
\* those of the render on display (its corner, its side length divided by the
\* image size it was rendered with), whatever zoom-ins, zoom-outs, double
\* clicks and image-size settings came before; the new corner is
\* corner + scale*(x, -y) for the rubber band's position (x, y) and the new
\* side is the rubber band's width times the scale.
C15_ReleaseReadsDisplayedViewport ==
  [][ZoomInStep =>
       LET scale == FDiv(scene.width, scene.noPixels)
           corner == <<scene.corner[1] + scale * rubberBand.x,
                       scene.corner[2] - scale * rubberBand.y>>
           width == rubberBand.w * scale
       IN  /\ upperLeftCorner = scene.corner
           /\ scaleFactor = scale
           /\ Viewport(scene') = PlotRange(corner, width)
           /\ history'[Len(history')] = Entry(corner, width, depth, intensity, noPixels)]_vars

\* a zoom-in after a zoom-out, from the initial viewport rendered with an
\* image size of 2 while the image-size setting is 1
C15_Witness ==
  /\ lastOp = Op("mouseReleaseEvent", "Left", TRUE, FALSE, FALSE)
  /\ Len(history) = 1
  /\ history[1].noPixels = 1 /\ history[1].width = 4 * Q
  /\ rubberBand.w = 2
  /\ scaleFactor = 4 * Q

=============================================================================
